---- MODULE Spec2Model ----
(***************************************************************************)
(* Model of scripts/geocode_properties_enhanced.py: the rate-limited,      *)
(* retrying geocoder client (RateLimitedGeocoder), the cached              *)
(* fallback-chained resolution of one address                              *)
(* (SeizedPropertyGeocoder._geocode_single_address), the cache file        *)
(* (_load_cache, _save_cache) and the batch run (process_properties).      *)
(*                                                                         *)
(* Strings are sequences of tokens.  A token is a record [w, up]: w names  *)
(* a word or a punctuation mark, up says whether the word is written with  *)
(* upper-case letters.  str.lower() clears up in every token; substring,   *)
(* prefix and concatenation are those of sequences.  Words are written in  *)
(* Latin transliteration ("morskaya" is the Cyrillic street name).         *)
(***************************************************************************)
EXTENDS Integers, Sequences, FiniteSets, TLC

----------------------------------------------------------------------------
(* Strings *)

U(w) == [w |-> w, up |-> TRUE]
Lw(w) == [w |-> w, up |-> FALSE]

Sp == Lw(" ")
Comma == Lw(",")
Dot == Lw(".")
Bar == Lw("|")
EmptyStr == << >>

\* str.lower()
Lower(s) == [i \in DOMAIN s |-> [s[i] EXCEPT !.up = FALSE]]

\* s.startswith(p)
StartsWith(s, p) == Len(p) <= Len(s) /\ SubSeq(s, 1, Len(p)) = p

\* p in s  (substring)
Contains(s, p) == \E k \in 0..(Len(s) - Len(p)) : SubSeq(s, k + 1, k + Len(p)) = p

\* s[:n]
Take(s, n) == SubSeq(s, 1, IF n < Len(s) THEN n ELSE Len(s))

\* x in list
InList(x, list) == \E k \in DOMAIN list : list[k] = x

\* str.strip(): leading and trailing white space removed
RECURSIVE LStrip(_)
LStrip(s) == IF s # << >> /\ Head(s) = Sp THEN LStrip(Tail(s)) ELSE s

RECURSIVE RStrip(_)
RStrip(s) == IF s # << >> /\ s[Len(s)] = Sp THEN RStrip(SubSeq(s, 1, Len(s) - 1)) ELSE s

Strip(s) == RStrip(LStrip(s))

\* re.sub(r'\s+', ' ', s)
RECURSIVE CollapseSpaces(_)
CollapseSpaces(s) ==
    IF Len(s) < 2 THEN s
    ELSE IF s[1] = Sp /\ s[2] = Sp THEN CollapseSpaces(Tail(s))
         ELSE <<s[1]>> \o CollapseSpaces(Tail(s))

\* re.sub(r'\s*,\s*', ', ', s) and re.sub(r'\s*\.\s*', '.', s) on a string whose
\* runs of white space are already collapsed: mark is the punctuation token,
\* repl the replacement text.
RECURSIVE SubAround(_, _, _)
SubAround(s, mark, repl) ==
    IF s = << >> THEN << >>
    ELSE IF s[1] = Sp /\ Len(s) >= 2 /\ s[2] = mark
         THEN IF Len(s) >= 3 /\ s[3] = Sp
              THEN repl \o SubAround(SubSeq(s, 4, Len(s)), mark, repl)
              ELSE repl \o SubAround(SubSeq(s, 3, Len(s)), mark, repl)
    ELSE IF s[1] = mark
         THEN IF Len(s) >= 2 /\ s[2] = Sp
              THEN repl \o SubAround(SubSeq(s, 3, Len(s)), mark, repl)
              ELSE repl \o SubAround(Tail(s), mark, repl)
    ELSE <<s[1]>> \o SubAround(Tail(s), mark, repl)

\* re.sub(r'[\s,.]*$', '', s)
RECURSIVE DropTrailing(_)
DropTrailing(s) ==
    IF s # << >> /\ s[Len(s)] \in {Sp, Comma, Dot}
    THEN DropTrailing(SubSeq(s, 1, Len(s) - 1))
    ELSE s

\* the letters of the district abbreviation "к. р."
KLetter == Lw("k")
RLetter == Lw("r")

\* a token of word characters (\w)
IsWordTok(t) == t \notin {Sp, Comma, Dot, Bar}

RECURSIVE SkipSpacesRight(_, _)
SkipSpacesRight(s, a) == IF a <= Len(s) /\ s[a] = Sp THEN SkipSpacesRight(s, a + 1) ELSE a

\* r'(?i)\bк\.?\s*р\.?\b(?!ривой)' and r'(?i)\bкр\b(?!ривой)' matched at
\* position i: where the match ends, 0 when there is none
kalmius_end(s, i) ==
    LET n == Len(s)
        a == IF i + 1 <= n /\ s[i + 1] = Dot THEN i + 2 ELSE i + 1
        j == SkipSpacesRight(s, a)
    IN  IF ~(/\ [s[i] EXCEPT !.up = FALSE] = KLetter
             /\ (i = 1 \/ ~IsWordTok(s[i - 1])))
        THEN 0
        ELSE IF j > n \/ [s[j] EXCEPT !.up = FALSE] # RLetter THEN 0
        ELSE IF j + 2 <= n /\ s[j + 1] = Dot /\ IsWordTok(s[j + 2]) THEN j + 1
        ELSE IF j = n \/ ~IsWordTok(s[j + 1]) THEN j
        ELSE 0

\* re.sub(pattern, 'Кальмиусский район', s) from position i on
RECURSIVE sub_district(_, _)
sub_district(s, i) ==
    IF i > Len(s) THEN << >>
    ELSE LET e == kalmius_end(s, i)
         IN  IF e > 0 THEN <<U("Kalmiusskiy rayon")>> \o sub_district(s, e + 1)
             ELSE <<s[i]>> \o sub_district(s, i + 1)

\* _clean_address.  Of the word-rewriting tables (district abbreviations,
\* street and settlement types, ordinals, the "years of the USSR" street) only
\* the abbreviation of the Kalmius district matches a word of the strings
\* below, so on these strings the function is its strip, that rewriting, its
\* white-space and punctuation passes and its trailing clean-up.
clean_address(address) ==
    IF address = EmptyStr THEN EmptyStr
    ELSE LET s0 == sub_district(Strip(address), 1)
             s1 == CollapseSpaces(s0)
             s2 == SubAround(s1, Comma, <<Comma, Sp>>)
             s3 == SubAround(s2, Dot, <<Dot>>)
             s4 == Strip(CollapseSpaces(s3))
         IN  DropTrailing(s4)

----------------------------------------------------------------------------
(* Vocabulary: the strings of the model *)

Khmelnitskogo == U("khmelnitskogo")    \* street name of a manual-override key
Mariupol == U("mariupol")
DonetskObl == U("donetskaya oblast")
Ukraina == U("ukraina")
N24 == Lw("24")
N7 == Lw("7")
N5 == Lw("5")
Kv == Lw("kv")                         \* the apartment marker of extract_building_address

Khm24 == <<Khmelnitskogo, Comma, Sp, N24>>
Mor7 == <<U("morskaya"), Comma, Sp, N7>>    \* a street with no manual override
Mor7Raw == <<Lw("morskaya"), Sp, Comma, Sp, N7, Comma>>
Mor7Region == Mor7 \o <<Comma, Sp, Mariupol, Comma, Sp, DonetskObl>>
Mor7Apt == Mor7 \o <<Comma, Sp, Kv, Dot, Sp, N5>>

Ilich == <<U("ilichevskiy rayon")>>    \* a district with no entry in district_variations

\* a street that street_name_mappings has another spelling of
Kirova == U("kirova")
KirovaUk == U("kirova (ukr.)")
Kir5 == <<Kirova, Comma, Sp, N5>>

\* an address that two keys of the manual table are prefixes of, with its district
Ussr55 == <<U("50-letiya SSSR"), Comma, Sp, Lw("55")>>
OktMariupol == <<U("oktyabrskiy rayon"), Comma, Sp, Mariupol>>

\* coordinates in units of 0.0001 degree
Pair(lon, lat) == [lon |-> lon, lat |-> lat]

\* self.manual_coordinates, in insertion order
manual_coordinates ==
    << [key |-> <<Lw("b-r"), Sp, U("bogdana"), Sp, Khmelnitskogo, Comma, Sp, Lw("d"), Dot, Sp, N24>>,
        coords |-> Pair(375689, 471012)],
       [key |-> <<Lw("b-r"), Sp, U("bogdana"), Sp, Khmelnitskogo, Comma, Sp, N24>>,
        coords |-> Pair(375689, 471012)],
       [key |-> <<U("bogdana"), Sp, Khmelnitskogo, Comma, Sp, N24>>,
        coords |-> Pair(375689, 471012)],
       [key |-> <<Khmelnitskogo, Comma, Sp, N24>>,
        coords |-> Pair(375689, 471012)],
       [key |-> <<U("Khmelnytskoho"), Comma, Sp, N24>>,
        coords |-> Pair(375689, 471012)],
       [key |-> <<U("50-letiya SSSR"), Comma, Sp, Lw("55"), Comma, Sp, U("oktyabrskiy rayon")>>,
        coords |-> Pair(375667, 471000)],
       [key |-> <<U("50-letiya SSSR"), Comma, Sp, Lw("55")>>,
        coords |-> Pair(375667, 471000)],
       [key |-> <<U("50 let SSSR"), Comma, Sp, Lw("55")>>,
        coords |-> Pair(375667, 471000)],
       [key |-> <<Lw("b-r"), Sp, U("shevchenko"), Comma, Sp, N24>>,
        coords |-> Pair(375650, 470980)],
       [key |-> <<U("shevchenko"), Comma, Sp, N24>>,
        coords |-> Pair(375650, 470980)],
       [key |-> <<U("Shevchenka"), Comma, Sp, N24>>,
        coords |-> Pair(375650, 470980)] >>

----------------------------------------------------------------------------
(* _generate_address_variations *)

RegionFull == <<Comma, Sp, Mariupol, Comma, Sp, DonetskObl, Comma, Sp, Ukraina>>
RegionShort == <<Comma, Sp, Mariupol, Comma, Sp, DonetskObl>>

\* any(x in cleaned_address.lower() for x in ['мариуполь', 'донецк', 'донецкая', 'украин'])
has_regional_context(cleaned_address) ==
    \E t \in {Mariupol, DonetskObl, Ukraina} : Contains(Lower(cleaned_address), Lower(<<t>>))

\* str.replace(old, new) for a word
ReplaceWord(s, old, new) == [i \in DOMAIN s |-> IF s[i] = old THEN new ELSE s[i]]

\* lines 314-319: the other spellings of the street, from the address as it
\* is and from its lower-cased form ('Кирова': ['Кірова'])
street_name_alternatives(cleaned_address) ==
    IF Contains(Lower(cleaned_address), Lower(<<Kirova>>))
    THEN {ReplaceWord(cleaned_address, Kirova, KirovaUk),
          ReplaceWord(Lower(cleaned_address), Lower(<<Kirova>>)[1], KirovaUk)}
    ELSE {}

\* The set `variations` when it is turned into a list.  Of the words of
\* Vocabulary only "kirova" is in street_name_mappings, none is in
\* district_variations or is a street type, so the district-language and
\* street-type steps add nothing here.
variation_set(address, district) ==
    LET cleaned_address == clean_address(address)
        cleaned_district == clean_address(district)
        base == {cleaned_address} \cup street_name_alternatives(cleaned_address)
        withDistrict ==
            IF district # EmptyStr /\ cleaned_district # EmptyStr
               /\ ~Contains(Lower(cleaned_address), Lower(cleaned_district))
            THEN base \cup {cleaned_address \o <<Comma, Sp>> \o cleaned_district}
            ELSE base
    IN  IF has_regional_context(cleaned_address)
        THEN withDistrict
        ELSE withDistrict \cup {v \o RegionFull : v \in withDistrict}
                          \cup {v \o RegionShort : v \in withDistrict}

\* ' '.join(v.split())
NormalizeWs(v) == Strip(CollapseSpaces(v))

\* the first n entries of the orders in which a set can be iterated
RECURSIVE Heads(_, _)
Heads(S, n) ==
    IF S = {} \/ n = 0 THEN {<< >>}
    ELSE UNION {{<<x>> \o rest : rest \in Heads(S \ {x}, n - 1)} : x \in S}

\* "Remove duplicates while preserving order": case-insensitive, first kept
RECURSIVE unique_variations(_, _)
unique_variations(list, seen) ==
    IF list = << >> THEN << >>
    ELSE LET norm_var == NormalizeWs(Head(list))
         IN  IF Lower(norm_var) \in seen
             THEN unique_variations(Tail(list), seen)
             ELSE <<norm_var>> \o unique_variations(Tail(list), seen \cup {Lower(norm_var)})

\* how far into list(variations) the caller's [:5] of line 510 can reach: five
\* entries, and one more for each entry the clean-up of lines 390-400 drops
\* (an empty one, or one equal to another without regard to case)
read_length(S) ==
    LET kept == {Lower(NormalizeWs(v)) : v \in S} \ {EmptyStr}
        k == 5 + (Cardinality(S) - Cardinality(kept))
    IN  IF k < Cardinality(S) THEN k ELSE Cardinality(S)

\* the orders in which the set of variations can be iterated, as far as the
\* caller reads the list
Orders(S) == Heads(S, read_length(S))

\* the list returned when the set is iterated in the order `order`
generate_address_variations(address, district, order) ==
    IF address = EmptyStr \/ clean_address(address) = EmptyStr THEN << >>
    ELSE LET listed == [i \in DOMAIN order |-> NormalizeWs(order[i])]
             kept == SelectSeq(listed, LAMBDA v : v # EmptyStr)
         IN  unique_variations(kept, {})

----------------------------------------------------------------------------
(* Values, program constants and bounds *)

\* a cache value is a coordinate pair (a tuple in memory, a list once it went
\* through the JSON file), None, or some other JSON value
NoneVal == [kind |-> "None"]
Junk == [kind |-> "str"]
TupleOf(p) == [kind |-> "tuple", lon |-> p.lon, lat |-> p.lat]
ListOf(p) == [kind |-> "list", lon |-> p.lon, lat |-> p.lat]

\* isinstance(cached, (tuple, list)) and len(cached) == 2
IsPair(v) == v.kind \in {"tuple", "list"}

\* tuple(cached)
AsTuple(v) == [v EXCEPT !.kind = "tuple"]

\* what json.dump followed by json.load makes of a value
JsonValue(v) == IF v.kind = "tuple" THEN [v EXCEPT !.kind = "list"] ELSE v

max_retries == 3
save_interval == 300
min_lon == 374000
max_lon == 377000
min_lat == 470000
max_lat == 472000
MaxGenerated == 5        \* _generate_address_variations(...)[:5]
RegionSources == 2       \* variations[:2]
MaxVariations == 8       \* variations[:8]

MaxRuns == 3             \* process_properties calls on one geocoder
MaxRows == 2             \* rows of the input table of a batch
batch_size == 1          \* the batch_size argument of process_properties
MaxRestarts == 1         \* times the process is started again on the same cache file
MaxTime == 300           \* the clock stops here
TickStep == 150          \* seconds between two observations of the clock

\* a region test that forgets the latitude
is_in_mariupol_region_lon_only(lon, lat) == min_lon <= lon /\ lon <= max_lon

\* _is_in_mariupol_region
is_in_mariupol_region(lon, lat) ==
    (min_lon <= lon /\ lon <= max_lon) /\ (min_lat <= lat /\ lat <= max_lat)

\* what the upstream service can answer: a location or None
InsidePair == Pair(375000, 471000)
OutsidePair == Pair(375000, 550000)
Locations == {InsidePair, OutsidePair}

\* dict assignment
Put(m, k, v) == [x \in DOMAIN m \cup {k} |-> IF x = k THEN v ELSE m[x]]
EmptyMap == [x \in {} |-> NoneVal]

----------------------------------------------------------------------------
(* The cache file *)

\* a file is absent or holds a text: the serialisation of `data`, of which
\* `written` entries have reached the file, `closed` when the dump finished
Absent == [exists |-> FALSE]
FileOf(data, written, closed) ==
    [exists |-> TRUE, data |-> data, written |-> written, closed |-> closed]
Complete(f) == f.exists /\ f.closed /\ f.written = Cardinality(DOMAIN f.data)

\* json.dump of the cache, entry by entry, read back by json.load
Serialised(m) == [k \in DOMAIN m |-> JsonValue(m[k])]

\* _load_cache: no file configured, no file, or an unreadable file give {}
load_cache(configured, f) ==
    IF ~configured \/ ~f.exists THEN EmptyMap
    ELSE IF Complete(f) THEN f.data
    ELSE EmptyMap

----------------------------------------------------------------------------
(* State *)

VARIABLES
    cache_file,      \* TRUE when a cache file is configured
    cache,           \* self.cache
    cache_modified,  \* self.cache_modified
    last_save,       \* self.last_save
    now,             \* time.time()
    target,          \* the file at cache_file
    tmp,             \* the file at cache_file + ".tmp"
    output,          \* the output file
    pc,              \* where the process is
    run,             \* the process_properties call in progress, or the last one
    call,            \* the _geocode_single_address call in progress (generated: the
                     \* list of variations as far as the call reads it; answered:
                     \* history, the service answered one of its requests)
    save,            \* the _save_cache call in progress
    ret,             \* how the last _geocode_single_address call ended
    first_value,     \* history: how each (address, district) returned first
    run_added,       \* history: the cache keys written during the run
    runs,            \* process_properties calls made by the process so far
    restarts,        \* process starts after the first
    elapsed,         \* time.time() - RateLimitedGeocoder.last_request, up to min_delay
    geo,             \* each caller's position in RateLimitedGeocoder.geocode
    sent,            \* history: the time since the last upstream request started and ended
    text,            \* the string _clean_address is applied to, then what it returned
    passes           \* times _clean_address has been applied to it

\* the variables of the resolution and of the cache file, and those of the
\* rate limiter
resolution == <<cache_file, cache, cache_modified, last_save, now, target, tmp, output,
                pc, run, call, save, ret, first_value, run_added, runs, restarts>>
limiter == <<elapsed, geo, sent>>
cleaning == <<text, passes>>
vars == <<resolution, limiter, cleaning>>

NoCall == [active |-> FALSE]
NoSave == [active |-> FALSE]
NoRet == [path |-> "none"]
NoRun == [status |-> "none", table |-> << >>, buildings |-> << >>, coordinates |-> << >>]

\* a row of the input table
Row(address, district) == [address |-> address, district |-> district]

\* the rows an input table is made of: in the runs on one geocoder, in the
\* runs of the processes sharing a cache file, and in the single call
BatchRows ==
    {Row(EmptyStr, EmptyStr), Row(Khm24, EmptyStr), Row(Khm24, Ilich),
     Row(Mor7Raw, EmptyStr), Row(Mor7Apt, EmptyStr), Row(Mor7Region, EmptyStr)}
\* the rows of a table of several rows: two rows that share a building
\* address in two districts, with the rows of the runs on one geocoder
TableRows == BatchRows \cup {Row(Khm24, OktMariupol), Row(Mor7Region, Ilich)}
\* the rows of a call that tries variations online
VariantRows == {Row(Kir5, Ilich), Row(Kir5, EmptyStr), Row(Mor7, Ilich)}
CacheRows ==
    {Row(EmptyStr, EmptyStr), Row(Khm24, EmptyStr), Row(Khm24, Ilich), Row(Mor7, EmptyStr)}
CallRows ==
    BatchRows \cup {Row(Mor7, EmptyStr), Row(Mor7, Ilich), Row(Mor7Region, Ilich),
                    Row(Ussr55, OktMariupol)}

TablesOf(rows, n) == UNION {[1..k -> rows] : k \in 1..n}

\* the cache files a process can find when it starts
StartFiles ==
    {Absent,
     FileOf(Put(EmptyMap, Lower(Mor7 \o <<Bar>>), ListOf(OutsidePair)), 1, TRUE),
     FileOf(Put(Put(EmptyMap, Lower(Mor7 \o <<Bar>>), Junk),
                Lower(Mor7Region \o <<Bar>>), ListOf(InsidePair)), 2, TRUE)}

\* min_delay = 1.1 s, in tenths of a second
min_delay == 11

\* the threads that may call geocode on the one RateLimitedGeocoder
Workers == {1, 2}

\* Times are tenths of a second.  The code uses the clock only through
\* differences it compares with min_delay, so a time span is counted up to
\* min_delay: the value min_delay stands for "min_delay or more".
NoTime == 0 - 1
GeoIdle == [pc |-> "idle", sleep |-> 0, retries |-> 0, queries |-> 0]

\* RateLimitedGeocoder.__init__: last_request = 0, which time.time() is far past
LimiterConstructed ==
    /\ elapsed = min_delay
    /\ geo = [w \in Workers |-> GeoIdle]
    /\ sent = [start |-> NoTime, end |-> NoTime, open |-> 0]

\* SeizedPropertyGeocoder.__init__, with or without a cache file
Constructed(configured) ==
    /\ cache_file = configured
    /\ target \in (IF cache_file THEN StartFiles ELSE {Absent})
    /\ tmp = Absent
    /\ cache = load_cache(cache_file, target)
    /\ cache_modified = FALSE
    /\ now = 0
    /\ last_save = 0
    /\ output = Absent
    /\ pc = "idle"
    /\ run = NoRun
    /\ call = NoCall
    /\ save = NoSave
    /\ ret = NoRet
    /\ first_value = EmptyMap
    /\ run_added = {}
    /\ runs = 0
    /\ restarts = 0
    /\ LimiterConstructed

MaxLen == 4              \* tokens of a string given to _clean_address

\* the strings _clean_address is given: the two letters, white space, marks
CleanAlphabet == {KLetter, RLetter, Sp, Dot, Comma}
CleanInputs == UNION {[1..n -> CleanAlphabet] : n \in 0..MaxLen}

\* no string is being cleaned
NotCleaning == text = EmptyStr /\ passes = 0

Init == Constructed(TRUE) /\ NotCleaning
InitCache == (\E configured \in BOOLEAN : Constructed(configured)) /\ NotCleaning
InitLimiter == Constructed(FALSE) /\ NotCleaning
InitClean == Constructed(FALSE) /\ text \in CleanInputs /\ passes = 0

----------------------------------------------------------------------------
(* process_properties: start *)

IsNumber(t) == t.w \in {"5", "7", "24", "55"}

\* re.search(r',?\s*кв\.?\s*\d+.*$', s): j is where "кв" stands
AptAt(s, j) ==
    /\ s[j] = Kv
    /\ \E k \in (j + 1)..Len(s) :
          /\ IsNumber(s[k])
          /\ \A m \in (j + 1)..(k - 1) : s[m] = Sp \/ (m = j + 1 /\ s[m] = Dot)

RECURSIVE SkipSpacesLeft(_, _)
SkipSpacesLeft(s, a) == IF a >= 1 /\ s[a] = Sp THEN SkipSpacesLeft(s, a - 1) ELSE a

\* extract_building_address
extract_building_address(full_address) ==
    IF \E j \in DOMAIN full_address : AptAt(full_address, j)
    THEN LET j == CHOOSE x \in DOMAIN full_address :
                    /\ AptAt(full_address, x)
                    /\ \A y \in 1..(x - 1) : ~AptAt(full_address, y)
             a == SkipSpacesLeft(full_address, j - 1)
             b == IF a >= 1 /\ full_address[a] = Comma THEN a - 1 ELSE a
         IN  Strip(SubSeq(full_address, 1, b))
    ELSE Strip(full_address)

\* df[['district', 'building_address']].drop_duplicates(): first occurrences, in order
RECURSIVE drop_duplicates(_, _)
drop_duplicates(list, seen) ==
    IF list = << >> THEN << >>
    ELSE IF Head(list) \in seen THEN drop_duplicates(Tail(list), seen)
         ELSE <<Head(list)>> \o drop_duplicates(Tail(list), seen \cup {Head(list)})

BuildingsOf(table) ==
    drop_duplicates([i \in DOMAIN table |->
                        Row(extract_building_address(table[i].address), table[i].district)],
                    {})

\* process_properties, lines 581-591: read the table, list the unique buildings
StartRun(tables, max_runs) ==
    /\ pc = "idle"
    /\ runs < max_runs
    /\ \E table \in tables :
          run' = [status |-> "running", table |-> table,
                  buildings |-> BuildingsOf(table), coordinates |-> << >>]
    /\ runs' = runs + 1
    /\ run_added' = {}
    /\ pc' = "run"
    /\ UNCHANGED <<cleaning, limiter, cache_file, cache, cache_modified, last_save, now, target, tmp,
                   output, call, save, ret, first_value, restarts>>

----------------------------------------------------------------------------
(* _geocode_single_address: cache, manual overrides, the list of variations *)

HasPending == pc = "run" /\ Len(run.coordinates) < Len(run.buildings)
CurrentBuilding == run.buildings[Len(run.coordinates) + 1]

\* cache_key = f"{cleaned}|{district}".lower()
cache_key_of(cleaned, district) == Lower(cleaned \o <<Bar>> \o district)

\* manual_key = (f"{cleaned}, {district}" if district else cleaned).lower().strip()
manual_key_of(cleaned, district) ==
    Strip(Lower(IF district # EmptyStr THEN cleaned \o <<Comma, Sp>> \o district ELSE cleaned))

\* a cache check that answers with pairs only and looks a cached None up again
CacheAnswers_pairs_only(key) == key \in DOMAIN cache /\ IsPair(cache[key])

\* lines 474-480: the cached value is returned when it is a pair or None
CacheAnswers(key) == key \in DOMAIN cache /\ (IsPair(cache[key]) \/ cache[key] = NoneVal)

\* manual_key in (k.lower() for k in self.manual_coordinates.keys())
ExactManualMatch(manual_key) ==
    \E k \in DOMAIN manual_coordinates : Lower(manual_coordinates[k].key) = manual_key

\* self.manual_coordinates[manual_key]: a dict lookup by the lower-cased key
manual_lookup(manual_key) ==
    IF \E k \in DOMAIN manual_coordinates : manual_coordinates[k].key = manual_key
    THEN [found |-> TRUE,
          coords |-> manual_coordinates[CHOOSE k \in DOMAIN manual_coordinates :
                                            manual_coordinates[k].key = manual_key].coords]
    ELSE [found |-> FALSE]

\* a match of whole keys only
PrefixMatches_whole_key(manual_key, k) == manual_key = Lower(manual_coordinates[k].key)

\* manual_key.startswith(key_lower)
PrefixMatches(manual_key, k) == StartsWith(manual_key, Lower(manual_coordinates[k].key))

\* the entry at which the loop over self.manual_coordinates.items() returns
first_prefix_match(manual_key) ==
    CHOOSE k \in DOMAIN manual_coordinates :
        /\ PrefixMatches(manual_key, k)
        /\ \A j \in 1..(k - 1) : ~PrefixMatches(manual_key, j)

\* lines 517-521: the region-qualified copies of the first variations
RECURSIVE variations_with_region(_)
variations_with_region(heads) ==
    IF heads = << >> THEN << >>
    ELSE LET var == Head(heads)
         IN  (IF ~Contains(Lower(var), Lower(<<Mariupol>>))
              THEN <<var \o RegionFull, var \o <<Comma, Sp, Mariupol>>>>
              ELSE << >>) \o variations_with_region(Tail(heads))

\* the list of variations left as long as it is
limit_variations_none(variations) == variations

\* variations = variations[:8]
limit_variations(variations) == Take(variations, MaxVariations)

\* lines 509-530: the variations tried online
online_variations(cleaned, district, order) ==
    LET v0 == Take(generate_address_variations(cleaned, district, order), MaxGenerated)
        v1 == IF district # EmptyStr
                 /\ ~\E k \in DOMAIN v0 : Contains(Lower(v0[k]), Lower(district))
              THEN Append(v0, cleaned \o <<Comma, Sp>> \o district)
              ELSE v0
        v2 == v1 \o variations_with_region(Take(v1, RegionSources))
        v3 == IF InList(cleaned, v2) THEN v2 ELSE Append(v2, cleaned)
    IN  limit_variations(v3)

\* the call returns `value` to process_properties, which keeps it for the building
Returns(input, value, path, geocodes, cached) ==
    /\ ret' = [path |-> path, input |-> input, value |-> value, geocodes |-> geocodes,
               cached |-> cached, repeat |-> input \in DOMAIN first_value,
               answered |-> call.active /\ call.answered]
    /\ first_value' = IF input \in DOMAIN first_value THEN first_value
                      ELSE Put(first_value, input,
                               [value |-> value, path |-> path,
                                answered |-> call.active /\ call.answered])
    /\ run' = [run EXCEPT !.coordinates = Append(@, value)]
    /\ call' = NoCall
    /\ pc' = "run"

\* the call raises: process_properties logs the error and returns False (lines 617-619)
Raises(input, path, cached) ==
    /\ ret' = [path |-> path, input |-> input, value |-> NoneVal, geocodes |-> 0,
               cached |-> cached, repeat |-> input \in DOMAIN first_value,
               answered |-> FALSE]
    /\ first_value' = first_value
    /\ run' = [NoRun EXCEPT !.status = "False"]
    /\ call' = NoCall
    /\ pc' = "idle"

\* lines 463-469: no address, or nothing left of it after cleaning
CallEmpty ==
    /\ HasPending
    /\ LET address == CurrentBuilding.address
           district == CurrentBuilding.district
       IN  /\ address = EmptyStr \/ clean_address(address) = EmptyStr
           /\ Returns(<<address, district>>, NoneVal, "empty", 0, FALSE)
    /\ UNCHANGED <<cleaning, limiter, cache_file, cache, cache_modified, last_save, now, target, tmp,
                   output, save, run_added, runs, restarts>>

\* lines 471-480: the cache answers
CallCacheHit ==
    /\ HasPending
    /\ LET address == CurrentBuilding.address
           district == CurrentBuilding.district
           cleaned == clean_address(address)
           cache_key == cache_key_of(cleaned, district)
       IN  /\ address # EmptyStr /\ cleaned # EmptyStr
           /\ CacheAnswers(cache_key)
           /\ Returns(<<address, district>>,
                      IF IsPair(cache[cache_key]) THEN AsTuple(cache[cache_key]) ELSE NoneVal,
                      "cache", 0, TRUE)
    /\ UNCHANGED <<cleaning, limiter, cache_file, cache, cache_modified, last_save, now, target, tmp,
                   output, save, run_added, runs, restarts>>

\* lines 484-494: an exact manual match
CallManualExact ==
    /\ HasPending
    /\ LET address == CurrentBuilding.address
           district == CurrentBuilding.district
           cleaned == clean_address(address)
           cache_key == cache_key_of(cleaned, district)
           manual_key == manual_key_of(cleaned, district)
           looked == manual_lookup(manual_key)
       IN  /\ address # EmptyStr /\ cleaned # EmptyStr
           /\ ~CacheAnswers(cache_key)
           /\ ExactManualMatch(manual_key)
           /\ IF looked.found
              THEN /\ cache' = Put(cache, cache_key, TupleOf(looked.coords))
                   /\ cache_modified' = TRUE
                   /\ run_added' = run_added \cup {cache_key}
                   /\ Returns(<<address, district>>, TupleOf(looked.coords), "manual_exact", 0,
                              cache_key \in DOMAIN cache)
              ELSE /\ Raises(<<address, district>>, "KeyError", cache_key \in DOMAIN cache)
                   /\ UNCHANGED <<cache, cache_modified, run_added>>
    /\ UNCHANGED <<cleaning, limiter, cache_file, last_save, now, target, tmp, output, save, runs, restarts>>

\* lines 496-504: the first manual key that is a prefix
CallManualPrefix ==
    /\ HasPending
    /\ LET address == CurrentBuilding.address
           district == CurrentBuilding.district
           cleaned == clean_address(address)
           cache_key == cache_key_of(cleaned, district)
           manual_key == manual_key_of(cleaned, district)
       IN  /\ address # EmptyStr /\ cleaned # EmptyStr
           /\ ~CacheAnswers(cache_key)
           /\ ~ExactManualMatch(manual_key)
           /\ \E k \in DOMAIN manual_coordinates : PrefixMatches(manual_key, k)
           /\ LET coords == manual_coordinates[first_prefix_match(manual_key)].coords
              IN  /\ cache' = Put(cache, cache_key, TupleOf(coords))
                  /\ cache_modified' = TRUE
                  /\ run_added' = run_added \cup {cache_key}
                  /\ Returns(<<address, district>>, TupleOf(coords), "manual_prefix", 0,
                             cache_key \in DOMAIN cache)
    /\ UNCHANGED <<cleaning, limiter, cache_file, last_save, now, target, tmp, output, save, runs, restarts>>

\* lines 506-532: no manual match; the variations to try are listed
CallOnline ==
    /\ HasPending
    /\ LET address == CurrentBuilding.address
           district == CurrentBuilding.district
           cleaned == clean_address(address)
           cache_key == cache_key_of(cleaned, district)
           manual_key == manual_key_of(cleaned, district)
       IN  /\ address # EmptyStr /\ cleaned # EmptyStr
           /\ ~CacheAnswers(cache_key)
           /\ ~ExactManualMatch(manual_key)
           /\ ~\E k \in DOMAIN manual_coordinates : PrefixMatches(manual_key, k)
           /\ \E order \in Orders(variation_set(cleaned, district)) :
                 call' = [active |-> TRUE, address |-> address, district |-> district,
                          cleaned |-> cleaned, cache_key |-> cache_key,
                          cached |-> cache_key \in DOMAIN cache, query |-> EmptyStr,
                          generated |-> generate_address_variations(cleaned, district, order),
                          variations |-> online_variations(cleaned, district, order),
                          i |-> 1, geocodes |-> 0, retries |-> 0, requests |-> 0,
                          backoffs |-> 0, outcome |-> "none", location |-> NoneVal,
                          answered |-> FALSE]
    /\ pc' = "loop"
    /\ UNCHANGED <<cleaning, limiter, cache_file, cache, cache_modified, last_save, now, target, tmp, output,
                   run, save, ret, first_value, run_added, runs, restarts>>

----------------------------------------------------------------------------
(* RateLimitedGeocoder.geocode *)

\* what one upstream request can raise.  In geopy.exc GeocoderTimedOut,
\* GeocoderUnavailable and GeocoderQuotaExceeded (like the query and
\* authentication errors) are subclasses of GeocoderServiceError; ValueError
\* stands for every exception that is not.
UpstreamExceptions ==
    {"GeocoderTimedOut", "GeocoderUnavailable", "GeocoderQuotaExceeded", "ValueError"}
ServiceErrors == {"GeocoderTimedOut", "GeocoderUnavailable", "GeocoderQuotaExceeded"}

\* a timeout or a temporary unavailability of the service
IsTransient(exc) == exc \in {"GeocoderTimedOut", "GeocoderUnavailable"}

\* except (GeocoderTimedOut, GeocoderServiceError)
caught_for_retry(exc) == exc \in ServiceErrors

\* a loop that allows one request more
may_request_inclusive(retries) == retries <= max_retries

\* while retries < self.max_retries
may_request(retries) == retries < max_retries

LocationOf(p) == [kind |-> "location", lon |-> p.lon, lat |-> p.lat]
Answers == {NoneVal} \cup {LocationOf(p) : p \in Locations}

\* line 71: the request is sent and the service answers
UpstreamAnswer ==
    /\ pc = "geocode"
    /\ may_request(call.retries)
    /\ \E answer \in Answers :
          call' = [call EXCEPT !.requests = @ + 1, !.outcome = "answer", !.location = answer,
                               !.answered = TRUE]
    /\ pc' = "geo_ret"
    /\ UNCHANGED <<cleaning, limiter, cache_file, cache, cache_modified, last_save, now, target, tmp, output,
                   run, save, ret, first_value, run_added, runs, restarts>>

\* lines 73-78: the request raises an error the first except clause catches;
\* the call sleeps (2 ** retries plus jitter) and counts the attempt
UpstreamRetried ==
    /\ pc = "geocode"
    /\ may_request(call.retries)
    /\ \E exc \in UpstreamExceptions :
          /\ caught_for_retry(exc)
          /\ call' = [call EXCEPT !.requests = @ + 1, !.outcome = exc,
                                  !.backoffs = @ + 1, !.retries = @ + 1]
    /\ pc' = "geocode"
    /\ UNCHANGED <<cleaning, limiter, cache_file, cache, cache_modified, last_save, now, target, tmp, output,
                   run, save, ret, first_value, run_added, runs, restarts>>

\* lines 79-81: any other exception: logged, None returned
UpstreamFailed ==
    /\ pc = "geocode"
    /\ may_request(call.retries)
    /\ \E exc \in UpstreamExceptions :
          /\ ~caught_for_retry(exc)
          /\ call' = [call EXCEPT !.requests = @ + 1, !.outcome = exc, !.location = NoneVal]
    /\ pc' = "geo_ret"
    /\ UNCHANGED <<cleaning, limiter, cache_file, cache, cache_modified, last_save, now, target, tmp, output,
                   run, save, ret, first_value, run_added, runs, restarts>>

\* lines 83-84: all attempts failed, None returned
GeocodeGiveUp ==
    /\ pc = "geocode"
    /\ ~may_request(call.retries)
    /\ call' = [call EXCEPT !.location = NoneVal]
    /\ pc' = "geo_ret"
    /\ UNCHANGED <<cleaning, limiter, cache_file, cache, cache_modified, last_save, now, target, tmp, output,
                   run, save, ret, first_value, run_added, runs, restarts>>

----------------------------------------------------------------------------
(* _geocode_single_address: the loop over the variations *)

InLoop == pc = "loop" /\ call.i <= Len(call.variations)

\* var_key = f"{variation}|{district}".lower()
var_key_of(variation, district) == Lower(variation \o <<Bar>> \o district)
CurrentVarKey == var_key_of(call.variations[call.i], call.district)

\* lines 539-541: the variation's own key holds a pair
VariantCached == CurrentVarKey \in DOMAIN cache /\ IsPair(cache[CurrentVarKey])

\* lines 538-544: the cached pair of the variation is returned
VariantCacheHit ==
    /\ InLoop
    /\ VariantCached
    /\ cache' = Put(cache, call.cache_key, cache[CurrentVarKey])
    /\ run_added' = run_added \cup {call.cache_key}
    /\ Returns(<<call.address, call.district>>, AsTuple(cache[CurrentVarKey]),
               "variant_cache", call.geocodes, call.cached)
    /\ UNCHANGED <<cleaning, limiter, cache_file, cache_modified, last_save, now, target, tmp, output, save,
                   runs, restarts>>

\* line 548: self.geocoder.geocode(variation, exactly_one=True)
CallGeocode ==
    /\ InLoop
    /\ ~VariantCached
    /\ call' = [call EXCEPT !.geocodes = @ + 1, !.query = call.variations[call.i],
                            !.retries = 0, !.requests = 0, !.backoffs = 0,
                            !.outcome = "none", !.location = NoneVal]
    /\ pc' = "geocode"
    /\ UNCHANGED <<cleaning, limiter, cache_file, cache, cache_modified, last_save, now, target, tmp, output,
                   run, save, ret, first_value, run_added, runs, restarts>>

\* line 550 and 554: a location, and inside the region
Accepted(location) ==
    location.kind = "location" /\ is_in_mariupol_region(location.lon, location.lat)

\* a success stored under the address's own key only
success_entries_original_only(c, cache_key, var_key, pair) == Put(c, cache_key, pair)

\* what a success stores (lines 556-557)
success_entries(c, cache_key, var_key, pair) ==
    Put(Put(c, cache_key, pair), var_key, pair)

\* lines 550-559: the location is accepted, cached under both keys and returned
AcceptLocation ==
    /\ pc = "geo_ret"
    /\ Accepted(call.location)
    /\ LET pair == TupleOf(call.location)
       IN  /\ cache' = success_entries(cache, call.cache_key, CurrentVarKey, pair)
           /\ Returns(<<call.address, call.district>>, pair, "online", call.geocodes,
                       call.cached)
    /\ cache_modified' = TRUE
    /\ run_added' = run_added \cup {call.cache_key, CurrentVarKey}
    /\ UNCHANGED <<cleaning, limiter, cache_file, last_save, now, target, tmp, output, save, runs, restarts>>

\* lines 550-565: no location, or one outside the region: the next variation
NextVariation ==
    /\ pc = "geo_ret"
    /\ ~Accepted(call.location)
    /\ call' = [call EXCEPT !.i = @ + 1, !.query = EmptyStr, !.retries = 0,
                            !.requests = 0, !.backoffs = 0, !.outcome = "none",
                            !.location = NoneVal]
    /\ pc' = "loop"
    /\ UNCHANGED <<cleaning, limiter, cache_file, cache, cache_modified, last_save, now, target, tmp, output,
                   run, save, ret, first_value, run_added, runs, restarts>>

\* lines 567-571: every variation failed; the failure is cached
Exhausted ==
    /\ pc = "loop"
    /\ call.i > Len(call.variations)
    /\ cache' = Put(cache, call.cache_key, NoneVal)
    /\ cache_modified' = TRUE
    /\ run_added' = run_added \cup {call.cache_key}
    /\ Returns(<<call.address, call.district>>, NoneVal, "exhausted", call.geocodes,
               call.cached)
    /\ UNCHANGED <<cleaning, limiter, cache_file, last_save, now, target, tmp, output, save, runs, restarts>>

----------------------------------------------------------------------------
(* process_properties: end *)

\* dict(zip(buildings['building_address'], buildings['coordinates'])): for an
\* address listed more than once the last pair of the zip stays
building_coords(buildings, coordinates, address) ==
    LET last == CHOOSE k \in DOMAIN buildings :
                    /\ buildings[k].address = address
                    /\ \A j \in (k + 1)..Len(buildings) : buildings[j].address # address
    IN  coordinates[last]

\* lines 599-615: the coordinates are mapped back to the rows, the output is
\* written, True is returned
FinishRun ==
    /\ pc = "run"
    /\ Len(run.coordinates) = Len(run.buildings)
    /\ output' = [exists |-> TRUE,
                  rows |-> [i \in DOMAIN run.table |->
                              [address |-> run.table[i].address,
                               district |-> run.table[i].district,
                               coordinates |->
                                   building_coords(run.buildings, run.coordinates,
                                       extract_building_address(run.table[i].address))]]]
    /\ run' = [NoRun EXCEPT !.status = "True"]
    /\ pc' = "idle"
    /\ UNCHANGED <<cleaning, limiter, cache_file, cache, cache_modified, last_save, now, target, tmp,
                   call, save, ret, first_value, run_added, runs, restarts>>

----------------------------------------------------------------------------
(* _save_cache.  Nothing in the repository calls it; here a user of the class
   calls it on the geocoder between two runs, forced or not. *)

\* a gate that lets force change nothing
save_skipped_ignores_force(force) ==
    \/ ~cache_modified \/ ~cache_file
    \/ (now - last_save) < save_interval

\* lines 128-133: nothing to save, no file, or saved too recently
save_skipped(force) ==
    \/ ~cache_modified \/ ~cache_file
    \/ (~force /\ (now - last_save) < save_interval)

SaveCache ==
    /\ pc = "idle"
    /\ \E force \in BOOLEAN :
          IF save_skipped(force)
          THEN /\ save' = [active |-> FALSE, force |-> force, result |-> "skipped"]
               /\ pc' = "idle"
          ELSE /\ save' = [active |-> TRUE, force |-> force, current_time |-> now,
                            previous |-> target]
               /\ pc' = "save_open"
    /\ UNCHANGED <<cleaning, limiter, cache_file, cache, cache_modified, last_save, now, target, tmp, output,
                   run, call, ret, first_value, run_added, runs, restarts>>

\* a save that opens the file at cache_file itself for writing
SaveOpen_in_place ==
    /\ pc = "save_open"
    /\ target' = FileOf(Serialised(cache), 0, FALSE)
    /\ tmp' = FileOf(Serialised(cache), 0, FALSE)
    /\ pc' = "save_write"
    /\ UNCHANGED <<cleaning, limiter, cache_file, cache, cache_modified, last_save, now, output,
                   run, call, save, ret, first_value, run_added, runs, restarts>>

\* line 137: open(temp_file, 'w') creates or empties the temporary file
SaveOpen ==
    /\ pc = "save_open"
    /\ tmp' = FileOf(Serialised(cache), 0, FALSE)
    /\ pc' = "save_write"
    /\ UNCHANGED <<cleaning, limiter, cache_file, cache, cache_modified, last_save, now, target, output,
                   run, call, save, ret, first_value, run_added, runs, restarts>>

\* line 138: json.dump writes the next entry
SaveWrite ==
    /\ pc = "save_write"
    /\ tmp.written < Cardinality(DOMAIN tmp.data)
    /\ tmp' = [tmp EXCEPT !.written = @ + 1]
    /\ UNCHANGED <<cleaning, limiter, cache_file, cache, cache_modified, last_save, now, target, output,
                   pc, run, call, save, ret, first_value, run_added, runs, restarts>>

\* the end of the with block: the text is complete and the file closed
SaveClose ==
    /\ pc = "save_write"
    /\ tmp.written = Cardinality(DOMAIN tmp.data)
    /\ tmp' = [tmp EXCEPT !.closed = TRUE]
    /\ pc' = "save_replace"
    /\ UNCHANGED <<cleaning, limiter, cache_file, cache, cache_modified, last_save, now, target, output,
                   run, call, save, ret, first_value, run_added, runs, restarts>>

\* os.replace / os.rename: the temporary file becomes the file at cache_file
replaced_target(old_target, temp) == temp

\* lines 140-147
SaveReplace ==
    /\ pc = "save_replace"
    /\ target' = replaced_target(target, tmp)
    /\ tmp' = Absent
    /\ cache_modified' = FALSE
    /\ last_save' = save.current_time
    /\ save' = [active |-> FALSE, force |-> save.force, result |-> "written"]
    /\ pc' = "idle"
    /\ UNCHANGED <<cleaning, limiter, cache_file, cache, now, output, run, call, ret, first_value,
                   run_added, runs, restarts>>

SavePhases == {"save_open", "save_write", "save_replace"}

\* lines 148-149: the next file operation raises; the error is logged
SaveFails ==
    /\ pc \in SavePhases
    /\ save' = [active |-> FALSE, force |-> save.force, result |-> "failed"]
    /\ pc' = "idle"
    /\ UNCHANGED <<cleaning, limiter, cache_file, cache, cache_modified, last_save, now, target, tmp, output,
                   run, call, ret, first_value, run_added, runs, restarts>>

\* the process is interrupted or killed while it saves
Interrupt ==
    /\ pc \in SavePhases
    /\ pc' = "dead"
    /\ UNCHANGED <<cleaning, limiter, cache_file, cache, cache_modified, last_save, now, target, tmp, output,
                   run, call, save, ret, first_value, run_added, runs, restarts>>

\* process_properties is interrupted while it resolves the buildings: the
\* KeyboardInterrupt is no Exception, the handlers of lines 617 and 691 let it
\* pass and the process ends
InterruptRun ==
    /\ pc \in {"run", "loop", "geocode", "geo_ret"}
    /\ pc' = "dead"
    /\ run' = [run EXCEPT !.status = "interrupted"]
    /\ call' = NoCall
    /\ UNCHANGED <<cleaning, limiter, cache_file, cache, cache_modified, last_save, now, target, tmp, output,
                   save, ret, first_value, run_added, runs, restarts>>

\* a new process constructs a SeizedPropertyGeocoder on the same cache file
Restart ==
    /\ pc \in {"idle", "dead"}
    /\ restarts < MaxRestarts
    /\ restarts' = restarts + 1
    /\ cache' = load_cache(cache_file, target)
    /\ cache_modified' = FALSE
    /\ last_save' = now
    /\ pc' = "idle"
    /\ run' = NoRun
    /\ call' = NoCall
    /\ save' = NoSave
    /\ ret' = NoRet
    /\ first_value' = EmptyMap
    /\ run_added' = {}
    /\ runs' = 0
    /\ UNCHANGED <<cleaning, limiter, cache_file, now, target, tmp, output>>

\* time passes
Tick ==
    /\ pc = "idle"
    /\ now + TickStep <= MaxTime
    /\ now' = now + TickStep
    /\ UNCHANGED <<cleaning, limiter, cache_file, cache, cache_modified, last_save, target, tmp, output,
                   pc, run, call, save, ret, first_value, run_added, runs, restarts>>

----------------------------------------------------------------------------
(* RateLimitedGeocoder.geocode with its clock.  A caller is a thread inside
   geocode; its steps are the statements of the loop, and time may pass
   between any two of them. *)

MaxQueries == 2          \* geocode calls of one caller

\* random.uniform(0, 1), its ends, in tenths of a second
Jitters == {0, 9}

RECURSIVE pow2(_)
pow2(n) == IF n = 0 THEN 1 ELSE 2 * pow2(n - 1)

\* wait_time = (2 ** retries) + random.uniform(0, 1)
backoff_wait(retries, jitter) == 10 * pow2(retries) + jitter

\* geocode is called: retries = 0
GeoCall(w) ==
    /\ geo[w].pc = "idle"
    /\ geo[w].queries < MaxQueries
    /\ geo' = [geo EXCEPT ![w] = [pc |-> "check", sleep |-> 0, retries |-> 0,
                                  queries |-> @.queries + 1]]
    /\ UNCHANGED <<cleaning, resolution, elapsed, sent>>

\* lines 51-56: the loop condition, the elapsed-time check and the call of
\* time.sleep(self.min_delay - elapsed)
GeoCheck(w) ==
    /\ geo[w].pc = "check"
    /\ may_request(geo[w].retries)
    /\ IF elapsed < min_delay
       THEN geo' = [geo EXCEPT ![w].pc = "sleep", ![w].sleep = min_delay - elapsed]
       ELSE geo' = [geo EXCEPT ![w].pc = "stamp"]
    /\ UNCHANGED <<cleaning, resolution, elapsed, sent>>

\* line 56: time.sleep returns, no earlier than asked
GeoWake(w) ==
    /\ geo[w].pc = "sleep"
    /\ geo[w].sleep = 0
    /\ geo' = [geo EXCEPT ![w].pc = "stamp"]
    /\ UNCHANGED <<cleaning, resolution, elapsed, sent>>

\* line 59: self.last_request = time.time()
GeoStamp(w) ==
    /\ geo[w].pc = "stamp"
    /\ elapsed' = 0
    /\ geo' = [geo EXCEPT ![w].pc = "send"]
    /\ UNCHANGED <<cleaning, resolution, sent>>

\* line 71: the upstream request starts
GeoSend(w) ==
    /\ geo[w].pc = "send"
    /\ sent' = [sent EXCEPT !.start = 0, !.open = @ + 1]
    /\ geo' = [geo EXCEPT ![w].pc = "wait"]
    /\ UNCHANGED <<cleaning, resolution, elapsed>>

\* lines 71 and 79-81: the request ends with an answer, or with an exception
\* that is not retried; geocode returns
GeoReturn(w) ==
    /\ geo[w].pc = "wait"
    /\ sent' = [sent EXCEPT !.end = 0, !.open = @ - 1]
    /\ geo' = [geo EXCEPT ![w].pc = "idle"]
    /\ UNCHANGED <<cleaning, resolution, elapsed>>

\* lines 73-77: the request ends with an exception that is retried; the
\* caller calls time.sleep(wait_time)
GeoError(w) ==
    /\ geo[w].pc = "wait"
    /\ sent' = [sent EXCEPT !.end = 0, !.open = @ - 1]
    /\ \E jitter \in Jitters :
          geo' = [geo EXCEPT ![w].pc = "backoff",
                             ![w].sleep = backoff_wait(geo[w].retries, jitter)]
    /\ UNCHANGED <<cleaning, resolution, elapsed>>

\* lines 77-78: time.sleep(wait_time) returns; retries += 1
GeoBackoffEnd(w) ==
    /\ geo[w].pc = "backoff"
    /\ geo[w].sleep = 0
    /\ geo' = [geo EXCEPT ![w].pc = "check", ![w].retries = @ + 1]
    /\ UNCHANGED <<cleaning, resolution, elapsed, sent>>

\* lines 83-84: the loop ends, None is returned
GeoGiveUp(w) ==
    /\ geo[w].pc = "check"
    /\ ~may_request(geo[w].retries)
    /\ geo' = [geo EXCEPT ![w].pc = "idle"]
    /\ UNCHANGED <<cleaning, resolution, elapsed, sent>>

\* a time span a tenth of a second later
Older(t) == IF t = NoTime \/ t >= min_delay THEN t ELSE t + 1

\* a tenth of a second passes
ClockTick ==
    /\ elapsed' = Older(elapsed)
    /\ sent' = [sent EXCEPT !.start = Older(@), !.end = Older(@)]
    /\ geo' = [w \in Workers |->
                  [geo[w] EXCEPT !.sleep = IF @ > 0 THEN @ - 1 ELSE 0]]
    /\ UNCHANGED <<cleaning, resolution>>

\* the steps of caller w
Geocode(w) ==
    \/ GeoCall(w) \/ GeoCheck(w) \/ GeoWake(w) \/ GeoStamp(w) \/ GeoSend(w)
    \/ GeoReturn(w) \/ GeoError(w) \/ GeoBackoffEnd(w) \/ GeoGiveUp(w)

----------------------------------------------------------------------------
(* Specifications *)

Resolve ==
    \/ CallEmpty \/ CallCacheHit \/ CallManualExact \/ CallManualPrefix \/ CallOnline
    \/ VariantCacheHit \/ CallGeocode \/ AcceptLocation \/ NextVariation \/ Exhausted
    \/ UpstreamAnswer \/ UpstreamRetried \/ UpstreamFailed \/ GeocodeGiveUp

Persist ==
    \/ SaveCache \/ SaveOpen \/ SaveWrite \/ SaveClose \/ SaveReplace \/ SaveFails
    \/ Interrupt \/ Restart \/ Tick

\* runs on one geocoder, one building each
Next == StartRun(TablesOf(BatchRows, 1), MaxRuns) \/ Resolve \/ FinishRun
Spec == Init /\ [][Next]_vars

\* one run of one address, any address of the vocabulary
SpecCall == Init /\ [][StartRun(TablesOf(CallRows, 1), 1) \/ Resolve \/ FinishRun]_vars

\* one call that builds its list of variations
SpecVariants == Init /\ [][StartRun(TablesOf(VariantRows, 1), 1) \/ CallOnline]_vars

\* one process_properties call on a table of several rows
NextBatch == StartRun(TablesOf(TableRows, MaxRows), 1) \/ Resolve \/ FinishRun
SpecBatch == Init /\ [][NextBatch]_vars

\* one process_properties call that can be interrupted
NextInterrupt == NextBatch \/ InterruptRun
SpecInterrupt == Init /\ [][NextInterrupt]_vars

\* the cache file, the clock and new processes; a process makes one run of one
\* address, as main() does
SpecCache == InitCache /\ [][StartRun(TablesOf(CacheRows, 1), 1) \/ Resolve \/ FinishRun \/ Persist]_vars

\* one caller of geocode, as in the program
SpecLimiter == InitLimiter /\ [][Geocode(1) \/ ClockTick]_vars

\* _clean_address applied to a string, and again to what it returned
MaxPasses == 2

CleanAddress ==
    /\ passes < MaxPasses
    /\ text' = clean_address(text)
    /\ passes' = passes + 1
    /\ UNCHANGED <<resolution, limiter>>

SpecClean == InitClean /\ [][CleanAddress]_vars

\* one RateLimitedGeocoder shared by the callers of Workers
SpecWorkers == InitLimiter /\ [][(\E w \in Workers : Geocode(w)) \/ ClockTick]_vars

----------------------------------------------------------------------------
(* Properties.  `ret` is rewritten only when a call returns, and the cache
   changes only in the step in which a call returns, so while `ret` shows a
   call the cache is the one that call left. *)

\* the keys of the call `ret` shows
RetCacheKey == cache_key_of(clean_address(ret.input[1]), ret.input[2])
RetManualKey == manual_key_of(clean_address(ret.input[1]), ret.input[2])

\* the manual entry whose lower-cased key is manual_key
ManualEntry(manual_key) ==
    manual_coordinates[CHOOSE k \in DOMAIN manual_coordinates :
                           Lower(manual_coordinates[k].key) = manual_key]

\* the bounding box, written with the bounds themselves
InBox(p) == min_lon <= p.lon /\ p.lon <= max_lon /\ min_lat <= p.lat /\ p.lat <= max_lat
PairsInBox(m) == \A k \in DOMAIN m : IsPair(m[k]) => InBox(m[k])

\* the cache the geocoder was constructed with (no action of Spec and SpecCall
\* writes the cache file)
StartCache == load_cache(cache_file, target)

\* C1: a call whose cache key is not in the cache and whose manual key equals
\* the lower-cased form of a key of the manual table returns that entry's
\* pair, stores it under the cache key and makes no geocoder call.
C1_ManualExactMatch ==
    (/\ ret.path # "none"
     /\ ret.input[1] # EmptyStr
     /\ ~ret.cached
     /\ ExactManualMatch(RetManualKey))
    => /\ ret.path = "manual_exact"
       /\ ret.value = TupleOf(ManualEntry(RetManualKey).coords)
       /\ RetCacheKey \in DOMAIN cache
       /\ cache[RetCacheKey] = ret.value
       /\ ret.geocodes = 0

\* C2: once a call for (address, district) has returned a value, every later
\* call on the same geocoder with the same (address, district) returns the
\* same value and makes no geocoder call, whatever was resolved in between.
C2_RepeatReturnsSameValue ==
    (ret.path \notin {"none", "KeyError"} /\ ret.repeat)
    => (ret.value = first_value[ret.input].value /\ ret.geocodes = 0)

\* C3: a call whose variations all fail stores None under the address's own
\* cache key and returns None; no later call for the same (address, district)
\* on the geocoder reaches the loop over the variations or sends a query.
C3_NegativeCaching ==
    /\ ret.path = "exhausted"
       => /\ ret.value = NoneVal
          /\ RetCacheKey \in DOMAIN cache
          /\ cache[RetCacheKey] = NoneVal
    /\ (call.active /\ <<call.address, call.district>> \in DOMAIN first_value)
       => first_value[<<call.address, call.district>>].path # "exhausted"
    /\ (ret.path \notin {"none", "KeyError"} /\ ret.repeat
        /\ first_value[ret.input].path = "exhausted")
       => (ret.path = "cache" /\ ret.geocodes = 0)

\* C3, its case: an address that exhausted its variations is asked again and
\* the cached None answers
C3_Witness ==
    /\ ret.path = "cache"
    /\ ret.repeat
    /\ ret.value = NoneVal
    /\ first_value[ret.input].path = "exhausted"

\* C4 as stated: for any starting cache and any answers of the geocoder, no
\* call returns a pair outside [37.4, 37.7] x [47.0, 47.2].
C4_RegionFilterAnyCache ==
    (ret.path \notin {"none", "KeyError"} /\ IsPair(ret.value)) => InBox(ret.value)

\* C4, amended: when every pair of the starting cache lies in the box, every
\* pair a call returns, and every pair the cache holds, lies in the box, for
\* any answers of the geocoder.
C4_RegionFilter ==
    PairsInBox(StartCache)
    => /\ PairsInBox(cache)
       /\ (ret.path \notin {"none", "KeyError"} /\ IsPair(ret.value)) => InBox(ret.value)

\* C4, its case: an online success after an earlier variation was turned down
C4_Witness ==
    /\ PairsInBox(StartCache)
    /\ ret.path = "online"
    /\ ret.geocodes >= 2
    /\ IsPair(ret.value)

\* C5: the variations are queried in list order, none skipped; on an accepted
\* answer the next step returns the pair, stored under the address's key and
\* the variation's key, and the call is over; on an answer that is None (no
\* result or a failed request) or outside the region the cache is left as it
\* is and the loop goes on with the next variation.
C5_LinearFallback ==
    /\ [](pc \in {"geocode", "geo_ret"}
          => /\ call.i \in DOMAIN call.variations
             /\ call.query = call.variations[call.i]
             /\ call.geocodes = call.i)
    /\ [][pc = "geo_ret"
          => IF call.location.kind = "location" /\ InBox(call.location)
             THEN /\ ret'.path = "online"
                  /\ ret'.value = TupleOf(call.location)
                  /\ ret'.geocodes = call.i
                  /\ call.cache_key \in DOMAIN cache'
                  /\ cache'[call.cache_key] = TupleOf(call.location)
                  /\ CurrentVarKey \in DOMAIN cache'
                  /\ cache'[CurrentVarKey] = TupleOf(call.location)
                  /\ call' = NoCall
             ELSE /\ cache' = cache
                  /\ pc' = "loop"
                  /\ call'.i = call.i + 1
                  /\ call'.variations = call.variations]_vars

\* C5, its case: a success at a later variation, stored under a second key
C5_Witness ==
    /\ ret.path = "online"
    /\ ret.geocodes >= 2
    /\ \E k \in DOMAIN cache : k # RetCacheKey /\ cache[k] = ret.value

\* C6: one call sends at most 8 variations to the geocoder.
C6_VariantBound ==
    /\ call.active => (call.geocodes <= 8 /\ Len(call.variations) <= 8)
    /\ ret.path # "none" => ret.geocodes <= 8

\* C6, its case: a call that queried eight variations and gave up
C6_Witness == ret.path = "exhausted" /\ ret.geocodes = 8

\* C7: for one query geocode sends at most 3 requests; whatever the upstream
\* does it can take a step until it returns, and it returns the upstream's
\* answer or None.
C7_BoundedRetry ==
    /\ pc \in {"geocode", "geo_ret"} => (call.requests <= 3 /\ call.retries <= 3)
    /\ pc = "geocode"
       => ENABLED (UpstreamAnswer \/ UpstreamRetried \/ UpstreamFailed \/ GeocodeGiveUp)
    /\ pc = "geo_ret"
       => IF call.outcome = "answer" THEN call.location \in Answers
          ELSE call.location = NoneVal

\* C7, its case: three requests failed and None comes back
C7_Witness ==
    /\ pc = "geo_ret"
    /\ call.requests = 3
    /\ call.outcome \in ServiceErrors
    /\ call.location = NoneVal

\* C8: after a request failed with anything but a timeout or a temporary
\* unavailability, geocode has returned None, without a backoff wait for
\* that failure and without a further request.
C8_OnlyTransientRetried ==
    (/\ pc \in {"geocode", "geo_ret"}
     /\ call.outcome \notin {"none", "answer"}
     /\ ~IsTransient(call.outcome))
    => /\ pc = "geo_ret"
       /\ call.location = NoneVal
       /\ call.backoffs = call.requests - 1

\* C9: when process_properties has returned True with a cache file
\* configured, every entry the run added to the cache is in the cache file.
C9_EndOfRunPersistence ==
    (run.status = "True" /\ cache_file)
    => \A k \in run_added :
          /\ Complete(target)
          /\ k \in DOMAIN target.data
          /\ target.data[k] = JsonValue(cache[k])

\* C10: the file at cache_file is absent or complete at every point; while a
\* save runs, and after it was interrupted, it is the file the save found;
\* it changes only in the replace step, to the completely written temporary
\* file holding the whole cache.
C10_AtomicPersistence ==
    /\ [](target.exists => Complete(target))
    /\ [](pc \in SavePhases \cup {"dead"} => target = save.previous)
    /\ [][target' # target
          => /\ pc = "save_replace"
             /\ Complete(tmp)
             /\ tmp.data = Serialised(cache)
             /\ target' = tmp]_vars

\* C10, its case: the process died while the temporary file was half written
C10_Witness ==
    /\ pc = "dead"
    /\ tmp.exists
    /\ tmp.written >= 1
    /\ tmp.written < Cardinality(DOMAIN tmp.data)
    /\ target = save.previous

\* the condition under which C11 says a save writes
FlushDue(force) ==
    cache_modified /\ cache_file /\ (force \/ now - last_save >= 300)

\* C11: a call of _save_cache(force) goes on to write exactly when the cache
\* is modified, a cache file is configured and force is set or 300 s have
\* passed since last_save; otherwise it ends at once with the file,
\* cache_modified and last_save as they were; the file is replaced only by a
\* save that was due, and then cache_modified is false and last_save is the
\* time that save read.
C11_FlushGating ==
    /\ [][(pc = "idle" /\ save' # save /\ save' # NoSave)
          => IF FlushDue(save'.force)
             THEN /\ pc' = "save_open"
                  /\ save'.active
                  /\ save'.current_time = now
                  /\ target' = target
             ELSE /\ pc' = "idle"
                  /\ save'.result = "skipped"
                  /\ target' = target
                  /\ cache_modified' = cache_modified
                  /\ last_save' = last_save]_vars
    /\ [][target' # target
          => /\ save.active
             /\ cache_modified /\ cache_file
             /\ (save.force \/ save.current_time - last_save >= 300)
             /\ ~cache_modified'
             /\ last_save' = save.current_time
             /\ save'.result = "written"]_vars
    /\ [](pc \in SavePhases => FlushDue(save.force))

\* C11, its case: an unforced save wrote the file once 300 s had passed
C11_Witness ==
    /\ pc = "idle"
    /\ ~save.active
    /\ save # NoSave
    /\ save.result = "written"
    /\ ~save.force
    /\ ~cache_modified
    /\ last_save = now
    /\ now >= 300
    /\ Complete(target)
    /\ target.data = Serialised(cache)

\* what the process last loaded from, or saved to, the cache file: the file
\* at cache_file changes only when a save of this process replaces it
SyncedCache == load_cache(cache_file, target)

\* C12: whenever the cache in memory differs from what was last loaded or
\* saved, cache_modified is true.
C12_DirtyFlag ==
    Serialised(cache) # Serialised(SyncedCache) => cache_modified

\* a step in which some caller's upstream request starts (line 71)
RequestStarts == \E w \in Workers : geo[w].pc = "send" /\ geo'[w].pc = "wait"

\* C13: with one caller, whenever an upstream request starts, at least
\* min_delay has passed since the end of the request before it.
C13_EndToStartDelay ==
    [][RequestStarts => (sent.end = NoTime \/ sent.end >= min_delay)]_vars

\* C14: with callers sharing one limiter, whenever an upstream request starts,
\* at least min_delay has passed since the start of the request before it.
C14_StartToStartDelay ==
    [][RequestStarts => (sent.start = NoTime \/ sent.start >= min_delay)]_vars

\* the entries of the manual table whose lower-cased key the manual key of the
\* call `ret` shows starts with
RetPrefixEntries ==
    {k \in DOMAIN manual_coordinates :
        LET key_lower == Lower(manual_coordinates[k].key)
        IN  /\ Len(key_lower) <= Len(RetManualKey)
            /\ \A i \in 1..Len(key_lower) : RetManualKey[i] = key_lower[i]}

\* the call `ret` shows had its cache key not cached, no exact manual match
\* and some key of the manual table as a prefix of its manual key
RetPrefixCase ==
    /\ ret.path # "none"
    /\ clean_address(ret.input[1]) # EmptyStr
    /\ ~ret.cached
    /\ ~ExactManualMatch(RetManualKey)
    /\ RetPrefixEntries # {}

\* C15: a call whose cache key is not cached, with no exact manual match and
\* with some manual key as a prefix of its manual key, returns the pair of
\* the first such entry in the order of the table, stores it under the cache
\* key and makes no geocoder call.
C15_ManualPrefixMatch ==
    RetPrefixCase
    => LET first == CHOOSE k \in RetPrefixEntries : \A j \in RetPrefixEntries : k <= j
       IN  /\ ret.path = "manual_prefix"
           /\ ret.value = TupleOf(manual_coordinates[first].coords)
           /\ RetCacheKey \in DOMAIN cache
           /\ cache[RetCacheKey] = ret.value
           /\ ret.geocodes = 0

\* a prefix case in which two entries of the table are prefixes
C15_Witness == RetPrefixCase /\ Cardinality(RetPrefixEntries) >= 2 /\ cache_modified

\* the building addresses process_properties has passed to
\* _geocode_single_address so far in the run
PassedBuildings == [i \in 1..Len(run.coordinates) |-> run.buildings[i].address]

\* C16: in a run, no building address is passed to _geocode_single_address
\* twice, and rows of the output that share a building address have the
\* same coordinates.
C16_BuildingDeduplication ==
    /\ pc = "run"
       => \A i, j \in DOMAIN PassedBuildings :
             PassedBuildings[i] = PassedBuildings[j] => i = j
    /\ output.exists
       => \A i, j \in DOMAIN output.rows :
             extract_building_address(output.rows[i].address)
                = extract_building_address(output.rows[j].address)
             => output.rows[i].coordinates = output.rows[j].coordinates

\* a step in which the call for the current building raises
RowFails == HasPending /\ ret'.path = "KeyError" /\ run' # run

C18_IncrementalOutput ==
    (pc = "run" /\ Len(run.coordinates) >= batch_size)
    => /\ output.exists
       /\ Len(output.rows) = Len(run.table)

\* C19: when process_properties has been interrupted after resolving some
\* building, the partial output is on disk and a configured cache file has
\* been flushed, so nothing of the cache is left unsaved.
C19_InterruptionHandling ==
    (pc = "dead" /\ run.status = "interrupted" /\ Len(run.coordinates) >= 1)
    => /\ output.exists
       /\ cache_file => ~cache_modified

\* C20: the list _generate_address_variations returned to a call has no
\* two entries that are equal without regard to case, and the normalized
\* address, the first variation generated, is its first entry.
C20_VariantListShape ==
    (pc = "loop" /\ call.active)
    => /\ \A i, j \in DOMAIN call.generated :
             Lower(call.generated[i]) = Lower(call.generated[j]) => i = j
       /\ call.generated # << >>
       /\ call.generated[1] = NormalizeWs(call.cleaned)

\* C21: _clean_address applied to a string it returned returns that string.
C21_CleanIdempotent ==
    [][(passes >= 1 /\ passes' = passes + 1) => text' = text]_vars

\* C22: the list of variations a call tries online has at most 8 entries and
\* the normalized address is one of them.
C22_LastResortVariant ==
    (pc = "loop" /\ call.active)
    => /\ Len(call.variations) <= MaxVariations
       /\ InList(call.cleaned, call.variations)

\* the call `ret` shows repeats a call that tried every variation and got no
\* answer from the service to any request
RepeatsOutage ==
    /\ ret.path \notin {"none", "KeyError"}
    /\ ret.repeat
    /\ first_value[ret.input].path = "exhausted"
    /\ ~first_value[ret.input].answered

\* C23: a call whose every request ended without an answer of the service
\* stores None under the address's own key and returns None, and every later
\* call for the same (address, district) returns None and sends no request.
C23_OutageCachedAsNotFound ==
    /\ (ret.path = "exhausted" /\ ~ret.answered)
       => /\ ret.value = NoneVal
          /\ RetCacheKey \in DOMAIN cache
          /\ cache[RetCacheKey] = NoneVal
    /\ RepeatsOutage => (ret.value = NoneVal /\ ret.geocodes = 0)

\* the value _geocode_single_address returned in the run for the building
\* (building_address, district)
ReturnedFor(building_address, district) ==
    run.coordinates[CHOOSE k \in DOMAIN run.buildings :
                        run.buildings[k] = Row(building_address, district)]

====
